---- MODULE Spec2Model ----
(***************************************************************************)
(* Model of dataset/mocap.py (class Mocap): the recursive directory        *)
(* indexer (_index_dir), the joint filter and unit converter               *)
(* (_process_points), the sample loader (__getitem__) and __len__.         *)
(*                                                                         *)
(* A directory path is a sequence of directory names, the root is << >>.   *)
(* A file path is a record [dir |-> directory path, pos |-> position of    *)
(* the file in the listing of that directory].  The file system is a       *)
(* function from the directories that exist to their number of files.      *)
(* Numbers of the annotation are fixed-point integers, Scale units per 1.  *)
(***************************************************************************)
EXTENDS Integers, Sequences, FiniteSets, TLC

VARIABLES
    fs,         \* the directory tree below self.path: directory -> number of files
    pc,         \* "new" before construction, "ready" after it
    index,      \* self.index: [rgba |-> list of encoded paths, json |-> list]
    errlog,     \* self.logger.error calls so far: the d_path of each
    trace,      \* the calls of _index_dir made by the construction, in call order
    transform,  \* self.transform: "none" or the name of the configured hook
    hookCalls,  \* the mappings self.transform was called with by the last __getitem__
    data,       \* the annotation record most recently read / processed
    result      \* the outcome of the most recent call

vars == <<fs, pc, index, errlog, trace, transform, hookCalls, data, result>>

----------------------------------------------------------------------------
(* Bounds *)

\* the largest number of files of one category directory
MaxFiles == 2

\* the largest number of joint records of one annotation
MaxJoints == 4

----------------------------------------------------------------------------
(* Class constants *)

ROOT_DIRS == <<"rgba", "json">>

CM_TO_M == 100

----------------------------------------------------------------------------
(* Helpers on sequences *)

Range(s) == {s[k] : k \in DOMAIN s}

IsPrefix(p, q) == Len(p) <= Len(q) /\ SubSeq(q, 1, Len(p)) = p

IsProperPrefix(p, q) == Len(p) < Len(q) /\ SubSeq(q, 1, Len(p)) = p

Parent(p) == SubSeq(p, 1, Len(p) - 1)

Last(p) == p[Len(p)]

----------------------------------------------------------------------------
(* The file system handed to the indexer *)

Root == << >>

\* the order in which a directory listing returns names
ListingOrder == <<"a", "b", "json", "rgba">>

\* the directories a tree of the model may hold
Slots ==
    { <<"a">>, <<"a", "rgba">>, <<"a", "json">>,
      <<"a", "b">>, <<"a", "b", "rgba">>, <<"a", "b", "json">>,
      <<"b">>, <<"b", "rgba">>, <<"b", "json">> }

\* trees whose root itself may hold the category directories
SlotsRoot ==
    { <<"rgba">>, <<"json">>, <<"a">>, <<"a", "rgba">>, <<"a", "json">> }

\* the smaller family used where every sample of the dataset is fetched
SlotsData ==
    { <<"a">>, <<"a", "rgba">>, <<"a", "json">>,
      <<"b">>, <<"b", "rgba">>, <<"b", "json">> }

IsCategoryDir(d) == d # Root /\ Last(d) \in Range(ROOT_DIRS)

PrefixClosed(D) == \A d \in D : d = Root \/ Parent(d) \in D

TreeShapes(slots) == { D \cup {Root} : D \in { E \in SUBSET slots : PrefixClosed(E \cup {Root}) } }

\* every tree over the slots; only category directories hold files
Trees(slots) ==
    UNION { { [d \in D |-> IF IsCategoryDir(d) THEN c[d] ELSE 0] :
                c \in [ {d \in D : IsCategoryDir(d)} -> 0..MaxFiles ] } :
            D \in TreeShapes(slots) }

\* io.get_subdirs(path): the names of the immediate sub-directories, in listing order
GetSubdirs(tree, path) ==
    SelectSeq(ListingOrder, LAMBDA n : Append(path, n) \in DOMAIN tree)

\* io.get_files(d_path): the paths of the files of d_path, in listing order
GetFiles(tree, d_path) == [k \in 1..tree[d_path] |-> [dir |-> d_path, pos |-> k]]

\* os.path.join(path, sub_dir)
Join(path, sub_dir) == Append(path, sub_dir)

\* p.encode('utf8') and b.decode('utf8')
Encode(p) == [utf8 |-> p]

Decode(b) == b.utf8

----------------------------------------------------------------------------
(* Mocap._index_dir *)

\* an empty dict and dict.update({key: value})
EmptyDict == [k \in {} |-> << >>]

Update(dict, key, value) == (key :> value) @@ dict

\* HasRootDirs with a fault: a strict subset where the code tests <=
HasRootDirsStrict(sub_dirs) ==
    Range(ROOT_DIRS) \subseteq Range(sub_dirs) /\ Range(ROOT_DIRS) # Range(sub_dirs)

\* line 40: set(self.ROOT_DIRS) <= set(sub_dirs)
HasRootDirs(sub_dirs) == Range(ROOT_DIRS) \subseteq Range(sub_dirs)

\* FramesMismatch with a fault: only a shorter listing counts as a mismatch
FramesMismatchShorter(n_frames, paths) == n_frames >= 0 /\ Len(paths) < n_frames

\* lines 50-55: the first category sets n_frames, a later one is compared with it
FramesMismatch(n_frames, paths) == n_frames >= 0 /\ Len(paths) # n_frames

\* line 57: [p.encode('utf8') for p in paths]
EncodeAll(paths) == [k \in DOMAIN paths |-> Encode(paths[k])]

\* Extend with a fault: the child's paths go in front
ExtendFront(list, more) == more \o list

\* line 71: indexed_paths[r_dir].extend(indexed[r_dir])
Extend(list, more) == list \o more

\* lines 43-60: the loop over ROOT_DIRS of a folder that holds them all, from
\* position k on; acc is [paths |-> indexed_paths, errors |-> logged d_paths]
RECURSIVE IndexFrames(_, _, _, _, _)
IndexFrames(tree, path, k, n_frames, acc) ==
    IF k > Len(ROOT_DIRS) THEN acc
    ELSE LET sub_dir == ROOT_DIRS[k]
             d_path  == Join(path, sub_dir)
             paths   == GetFiles(tree, d_path)
             logged  == IF FramesMismatch(n_frames, paths)
                        THEN Append(acc.errors, d_path) ELSE acc.errors
         IN  IndexFrames(tree, path, k + 1,
                         IF n_frames < 0 THEN Len(paths) ELSE n_frames,
                         [paths  |-> Update(acc.paths, sub_dir, EncodeAll(paths)),
                          errors |-> logged])

\* lines 70-71: merge the index of one child into indexed_paths
RECURSIVE MergeRootDirs(_, _, _)
MergeRootDirs(indexed_paths, indexed, k) ==
    IF k > Len(ROOT_DIRS) THEN indexed_paths
    ELSE MergeRootDirs(
            [indexed_paths EXCEPT ![ROOT_DIRS[k]] = Extend(@, indexed[ROOT_DIRS[k]])],
            indexed, k + 1)

\* lines 63-64: indexed_paths.update({sub_dir: []}) for every root dir
RECURSIVE InitRootDirs(_, _)
InitRootDirs(indexed_paths, k) ==
    IF k > Len(ROOT_DIRS) THEN indexed_paths
    ELSE InitRootDirs(Update(indexed_paths, ROOT_DIRS[k], << >>), k + 1)

\* One call of _index_dir with everything it does: the returned dict (paths),
\* the errors it and its callees log, and the calls made (itself first, then
\* its callees in call order), each with what it returned.
RECURSIVE IndexDir(_, _), MergeSubdirs(_, _, _, _, _)
IndexDir(tree, path) ==
    LET sub_dirs == GetSubdirs(tree, path)
    IN  IF HasRootDirs(sub_dirs)
        THEN LET r == IndexFrames(tree, path, 1, -1,
                                  [paths |-> EmptyDict, errors |-> << >>])
             IN  [paths  |-> r.paths,
                  errors |-> r.errors,
                  calls  |-> << [path |-> path, direct |-> TRUE, ret |-> r.paths] >>]
        ELSE LET m == MergeSubdirs(tree, path, sub_dirs, 1,
                                   [paths  |-> InitRootDirs(EmptyDict, 1),
                                    errors |-> << >>, calls |-> << >>])
             IN  [paths  |-> m.paths,
                  errors |-> m.errors,
                  calls  |-> << [path |-> path, direct |-> FALSE, ret |-> m.paths] >>
                             \o m.calls]

\* lines 67-71: the loop over sub_dirs, from position k on
MergeSubdirs(tree, path, sub_dirs, k, acc) ==
    IF k > Len(sub_dirs) THEN acc
    ELSE LET indexed == IndexDir(tree, Join(path, sub_dirs[k]))
         IN  MergeSubdirs(tree, path, sub_dirs, k + 1,
                          [paths  |-> MergeRootDirs(acc.paths, indexed.paths, 1),
                           errors |-> acc.errors \o indexed.errors,
                           calls  |-> acc.calls \o indexed.calls])

\* Mocap.index_db with self.path the root of the tree
IndexDb(tree) == IndexDir(tree, Root)

\* DatasetLen with a fault: the length of the last category
DatasetLenLast(idx) == Len(idx[ROOT_DIRS[Len(ROOT_DIRS)]])

\* Mocap.__len__
DatasetLen(idx) == Len(idx[ROOT_DIRS[1]])

----------------------------------------------------------------------------
(* State machine of the indexer *)

NoData == [joints |-> << >>, pts2d |-> << >>, pts3d |-> << >>, action |-> "none"]

NoResult == [op |-> "none"]

InitIndex ==
    /\ fs \in Trees(Slots) \cup Trees(SlotsRoot)
    /\ pc = "new"
    /\ index = EmptyDict
    /\ errlog = << >>
    /\ trace = << >>
    /\ transform = "none"
    /\ hookCalls = << >>
    /\ data = NoData
    /\ result = NoResult

\* BaseDataset construction: self.index = self.index_db()
Construct ==
    /\ pc = "new"
    /\ LET r == IndexDb(fs)
       IN  /\ index' = r.paths
           /\ errlog' = errlog \o r.errors
           /\ trace' = r.calls
    /\ pc' = "ready"
    /\ UNCHANGED <<fs, transform, hookCalls, data, result>>

NextIndex == Construct

SpecIndex == InitIndex /\ [][NextIndex]_vars

----------------------------------------------------------------------------
(* What the tree holds, stated on the tree itself *)

ChildNames(tree, p) == { n \in Range(ListingOrder) : Append(p, n) \in DOMAIN tree }

HoldsBoth(tree, p) == {"rgba", "json"} \subseteq ChildNames(tree, p)

\* the folders whose files make up the index: they hold both category
\* directories and no folder above them does
IndexedFolders(tree) ==
    { p \in DOMAIN tree :
        /\ HoldsBoth(tree, p)
        /\ \A q \in DOMAIN tree : IsProperPrefix(q, p) => ~HoldsBoth(tree, q) }

\* a folder whose two category directories hold different numbers of files
Mismatched(tree, p) ==
    HoldsBoth(tree, p) /\ tree[Append(p, "rgba")] # tree[Append(p, "json")]

ListingPos(n) == CHOOSE k \in DOMAIN ListingOrder : ListingOrder[k] = n

\* p comes before q in a depth-first traversal that follows the listings
DfsBefore(p, q) ==
    \/ IsProperPrefix(p, q)
    \/ \E k \in 1..Len(p) :
         /\ k <= Len(q)
         /\ SubSeq(p, 1, k - 1) = SubSeq(q, 1, k - 1)
         /\ ListingPos(p[k]) < ListingPos(q[k])

RECURSIVE DfsSorted(_)
DfsSorted(S) ==
    IF S = {} THEN << >>
    ELSE LET first == CHOOSE p \in S : \A q \in S \ {p} : DfsBefore(p, q)
         IN  <<first>> \o DfsSorted(S \ {first})

\* the encoded listing of category cat of folder p
Listing(tree, p, cat) ==
    [k \in 1..tree[Append(p, cat)] |-> [utf8 |-> [dir |-> Append(p, cat), pos |-> k]]]

RECURSIVE ConcatListings(_, _, _)
ConcatListings(tree, folders, cat) ==
    IF folders = << >> THEN << >>
    ELSE Listing(tree, Head(folders), cat) \o ConcatListings(tree, Tail(folders), cat)

\* the listings of the indexed folders, one after the other in traversal order
ExpectedIndex(tree, cat) == ConcatListings(tree, DfsSorted(IndexedFolders(tree)), cat)

\* the folder an indexed path was listed from, and its place in that listing
FolderOf(b) == Parent(b.utf8.dir)

PosOf(b) == b.utf8.pos

Without(list, folder) == SelectSeq(list, LAMBDA b : FolderOf(b) # folder)

Only(list, folder) == SelectSeq(list, LAMBDA b : FolderOf(b) = folder)

\* the tree with folder p's json directory holding as many files as its rgba one
Repaired(tree, p) == [tree EXCEPT ![Append(p, "json")] = tree[Append(p, "rgba")]]

----------------------------------------------------------------------------
(* Claims about the indexer, checked under SpecIndex *)

\* C1: the rgba and json lists of the built index have equal length and, at
\* every position, the two paths come from the same folder and the same
\* listing position, for every tree (mismatched folders included).
C1_AlignedIndex ==
    pc = "ready" =>
        /\ Len(index.rgba) = Len(index.json)
        /\ \A i \in DOMAIN index.rgba :
             /\ i \in DOMAIN index.json
             /\ FolderOf(index.rgba[i]) = FolderOf(index.json[i])
             /\ PosOf(index.rgba[i]) = PosOf(index.json[i])

\* C2: when every folder holding both category directories has as many json
\* as rgba files, each category list is exactly the concatenation of the
\* indexed folders' listings in depth-first listing order, and the two lists
\* have equal length.
C2_ConcatInTraversalOrder ==
    (pc = "ready" /\ \A p \in DOMAIN fs : ~Mismatched(fs, p)) =>
        /\ index.rgba = ExpectedIndex(fs, "rgba")
        /\ index.json = ExpectedIndex(fs, "json")
        /\ Len(index.rgba) = Len(index.json)

\* C2 witness: matched folders at depth 1 and depth 2, one with two frames
C2_Witness ==
    /\ pc = "ready"
    /\ \A p \in DOMAIN fs : ~Mismatched(fs, p)
    /\ IndexedFolders(fs) = { <<"a", "b">>, <<"b">> }
    /\ fs[<<"a", "b", "rgba">>] = 2
    /\ fs[<<"b", "rgba">>] = 1
    /\ Len(index.rgba) = 3

\* C3: a call of _index_dir indexes its folder directly exactly when the
\* folder holds both rgba and json, and then no folder below it is visited;
\* otherwise every immediate sub-directory is visited and none of the
\* returned paths is a file of the folder's own category directories; a
\* folder without sub-directories returns two empty lists.
C3_DirectIffBoth ==
    pc = "ready" =>
        \A k \in DOMAIN trace :
            LET c    == trace[k]
                kids == ChildNames(fs, c.path)
            IN  /\ c.direct <=> {"rgba", "json"} \subseteq kids
                /\ c.direct =>
                     /\ \A j \in DOMAIN trace : ~IsProperPrefix(c.path, trace[j].path)
                     /\ c.ret.rgba = Listing(fs, c.path, "rgba")
                     /\ c.ret.json = Listing(fs, c.path, "json")
                /\ ~c.direct =>
                     /\ \A n \in kids :
                          \E j \in DOMAIN trace : trace[j].path = Append(c.path, n)
                     /\ \A b \in Range(c.ret.rgba) \cup Range(c.ret.json) :
                          FolderOf(b) # c.path
                /\ kids = {} => c.ret.rgba = << >> /\ c.ret.json = << >>

\* C3 witness: folder a holds rgba (with files) but no json, and is recursed
\* into down to an indexed folder a/b
C3_Witness ==
    /\ pc = "ready"
    /\ ChildNames(fs, <<"a">>) = {"rgba", "b"}
    /\ fs[<<"a", "rgba">>] = 2
    /\ \E k \in DOMAIN trace : trace[k].path = <<"a", "rgba">> /\ ~trace[k].direct
    /\ \E k \in DOMAIN trace : trace[k].path = <<"a", "b">> /\ trace[k].direct
    /\ Len(index.rgba) = 1

\* a second case of C3: the root is indexed directly and folder a below it,
\* which holds both category directories, is never visited
C3_RootIndexedDirectly ==
    /\ pc = "ready"
    /\ HoldsBoth(fs, Root)
    /\ HoldsBoth(fs, <<"a">>)
    /\ fs[<<"a", "rgba">>] = 1
    /\ Len(trace) = 1
    /\ Len(index.rgba) = 2

\* C4: a folder whose json count differs from its rgba count is logged once
\* and nothing is raised: the log holds exactly the json directories of the
\* mismatched indexed folders, in traversal order; both full listings of such
\* a folder are in the index; and the paths of all other folders are the ones
\* the index would hold had the folder's counts matched.
C4_MismatchLoggedAndKept ==
    pc = "ready" =>
        /\ errlog = [k \in DOMAIN DfsSorted({p \in IndexedFolders(fs) : Mismatched(fs, p)})
                       |-> Append(DfsSorted({p \in IndexedFolders(fs) : Mismatched(fs, p)})[k],
                                  "json")]
        /\ \A p \in IndexedFolders(fs) :
             Mismatched(fs, p) =>
                /\ Only(index.rgba, p) = Listing(fs, p, "rgba")
                /\ Only(index.json, p) = Listing(fs, p, "json")
                /\ Without(index.rgba, p) = Without(IndexDb(Repaired(fs, p)).paths.rgba, p)
                /\ Without(index.json, p) = Without(IndexDb(Repaired(fs, p)).paths.json, p)

\* C4 witness: the first indexed folder is mismatched, a later one is indexed
C4_Witness ==
    /\ pc = "ready"
    /\ errlog = << <<"a", "json">> >>
    /\ fs[<<"a", "rgba">>] = 1
    /\ fs[<<"a", "json">>] = 2
    /\ <<"b">> \in IndexedFolders(fs)
    /\ fs[<<"b", "rgba">>] = 2
    /\ Len(index.json) = 4

----------------------------------------------------------------------------
(* Annotation records and numpy arrays *)

\* fixed-point unit of the model's numbers: 1000 units per 1, so that every
\* value of the model (a multiple of 0.5) divided by CM_TO_M is exact
Scale == 10 * CM_TO_M

\* config.skel.keys(): the skeleton's joint names, in skeleton order.  A name
\* is a sequence of tokens.
Skel == << <<"Head">>, <<"Neck">>, <<"Hips">> >>

Prefix == "mixamorig:"

\* the joint names an annotation of the model may carry
RawNames ==
    { <<Prefix, "Head">>, <<Prefix, "Neck">>, <<Prefix, "Hips">>,
      <<"Hips">>, <<Prefix, "Toe">> }

\* name.replace('mixamorig:', ''): every occurrence is removed
StripPrefix(name) == SelectSeq(name, LAMBDA t : t # Prefix)

\* a JSON number: an int literal or a float literal
Num(kind, v) == [kind |-> kind, v |-> v]

\* the kinds of the numbers of one JSON array: all ints, all floats, or a
\* float for the first joint and ints for the others
KindAt(kinds, j) ==
    IF kinds = "int" THEN "int"
    ELSE IF kinds = "float" THEN "float"
    ELSE IF j = 1 THEN "float" ELSE "int"

Frac(kind) == IF kind = "float" THEN Scale \div 2 ELSE 0

\* pts2d_fisheye[r][j] and pts3d_fisheye[r][j] of the model's annotations;
\* joint 1 has the 3D point (100, 150, -200), with 0.5 added for a float
Raw2D(kinds, r, j) == Num(KindAt(kinds, j), (10 * j + r) * Scale + Frac(KindAt(kinds, j)))

Raw3D(kinds, r, j) ==
    Num(KindAt(kinds, j),
        (IF r = 3 THEN -1 ELSE 1) * ((100 * j + 50 * (r - 1)) * Scale + Frac(KindAt(kinds, j))))

JointLists == UNION { [1..n -> RawNames] : n \in 0..MaxJoints }

Annotation(joints, kinds2, kinds3) ==
    [joints |-> [j \in DOMAIN joints |-> [name |-> joints[j]]],
     pts2d  |-> [r \in 1..2 |-> [j \in DOMAIN joints |-> Raw2D(kinds2, r, j)]],
     pts3d  |-> [r \in 1..3 |-> [j \in DOMAIN joints |-> Raw3D(kinds3, r, j)]],
     action |-> "walking"]

KindPatterns == {"int", "float", "mixed"}

Annotations ==
    { Annotation(js, k2, k3) : js \in JointLists, k2 \in KindPatterns, k3 \in KindPatterns }

\* np.array(nested list): int64 when every number is an int literal,
\* float64 otherwise (an empty array is float64)
NpArray(lists) ==
    [dtype |-> IF /\ \E r \in DOMAIN lists : lists[r] # << >>
                  /\ \A r \in DOMAIN lists : \A j \in DOMAIN lists[r] :
                        lists[r][j].kind = "int"
               THEN "int64" ELSE "float64",
     rows  |-> [r \in DOMAIN lists |-> [j \in DOMAIN lists[r] |-> lists[r][j].v]]]

\* ndarray.T of a 2-D array
Transpose(a) ==
    [dtype |-> a.dtype,
     rows  |-> [j \in 1..(IF a.rows = << >> THEN 0 ELSE Len(a.rows[1])) |->
                  [r \in DOMAIN a.rows |-> a.rows[r][j]]]]

\* the cast of a value stored into a buffer of another dtype: float to int
\* drops the fraction (toward zero)
Cast(v, from, to) ==
    IF from = "float64" /\ to = "int64"
    THEN IF v >= 0 THEN (v \div Scale) * Scale ELSE 0 - (((0 - v) \div Scale) * Scale)
    ELSE v

\* buffer[jid] = orig[row]: the row as stored in a buffer of dtype dtype
StoredRow(orig, row, dtype) ==
    [c \in DOMAIN orig.rows[row] |-> Cast(orig.rows[row][c], orig.dtype, dtype)]

----------------------------------------------------------------------------
(* Mocap._process_points *)

NoArray == [dtype |-> "none", rows |-> << >>]

\* lines 89-90: {j['name'].replace('mixamorig:', ''): jid for jid, j in
\* enumerate(data['joints'])}; a later joint of the same name replaces an
\* earlier one; jid counts from 0
JointNames(joints) ==
    [n \in {StripPrefix(joints[k].name) : k \in DOMAIN joints} |->
        (CHOOSE k \in DOMAIN joints :
            /\ StripPrefix(joints[k].name) = n
            /\ \A m \in DOMAIN joints : StripPrefix(joints[m].name) = n => m <= k) - 1]

\* FilterJoints with a fault: a joint missing from the annotation is skipped
RECURSIVE FilterJointsSkipMissing(_, _, _, _, _)
FilterJointsSkipMissing(jid, p2d_orig, p3d_orig, joint_names, acc) ==
    IF jid >= Len(Skel) THEN acc
    ELSE LET j == Skel[jid + 1]
         IN  IF j \notin DOMAIN joint_names
             THEN FilterJointsSkipMissing(jid + 1, p2d_orig, p3d_orig, joint_names, acc)
             ELSE FilterJointsSkipMissing(jid + 1, p2d_orig, p3d_orig, joint_names,
                    [status |-> "ok",
                     p2d |-> Append(acc.p2d,
                                StoredRow(p2d_orig, joint_names[j] + 1, p2d_orig.dtype)),
                     p3d |-> Append(acc.p3d,
                                StoredRow(p3d_orig, joint_names[j] + 1, p2d_orig.dtype))])

\* lines 94-99: the loop over the skeleton's keys from jid on.  Both buffers
\* are np.empty(..., dtype=p2d_orig.dtype); the loop writes row jid of each
\* in turn, so acc holds the rows written so far.  joint_names[j] of a name
\* that is no key raises KeyError.
RECURSIVE FilterJoints(_, _, _, _, _)
FilterJoints(jid, p2d_orig, p3d_orig, joint_names, acc) ==
    IF jid >= Len(Skel) THEN acc
    ELSE LET j == Skel[jid + 1]
         IN  IF j \notin DOMAIN joint_names
             THEN [status |-> "KeyError", p2d |-> << >>, p3d |-> << >>]
             ELSE FilterJoints(jid + 1, p2d_orig, p3d_orig, joint_names,
                    [status |-> "ok",
                     p2d |-> Append(acc.p2d,
                                StoredRow(p2d_orig, joint_names[j] + 1, p2d_orig.dtype)),
                     p3d |-> Append(acc.p3d,
                                StoredRow(p3d_orig, joint_names[j] + 1, p2d_orig.dtype))])

\* line 101: p3d /= d.  True division yields float64, which numpy does not
\* store into an int64 array under its same_kind casting rule: TypeError.
TrueDivideInPlace(a, d) ==
    IF a.dtype = "int64"
    THEN [status |-> "TypeError", arr |-> NoArray]
    ELSE [status |-> "ok",
          arr |-> [dtype |-> a.dtype,
                   rows  |-> [k \in DOMAIN a.rows |->
                                [c \in DOMAIN a.rows[k] |-> a.rows[k][c] \div d]]]]

\* Mocap._process_points(data)
ProcessPoints(d) ==
    LET p2d_orig    == Transpose(NpArray(d.pts2d))
        p3d_orig    == Transpose(NpArray(d.pts3d))
        joint_names == JointNames(d.joints)
        filtered    == FilterJoints(0, p2d_orig, p3d_orig, joint_names,
                                    [status |-> "ok", p2d |-> << >>, p3d |-> << >>])
        divided     == TrueDivideInPlace(
                          [dtype |-> p2d_orig.dtype, rows |-> filtered.p3d], CM_TO_M)
    IN  IF filtered.status # "ok"
        THEN [status |-> filtered.status, p2d |-> NoArray, p3d |-> NoArray]
        ELSE IF divided.status # "ok"
        THEN [status |-> divided.status, p2d |-> NoArray, p3d |-> NoArray]
        ELSE [status |-> "ok",
              p2d |-> [dtype |-> p2d_orig.dtype, rows |-> filtered.p2d],
              p3d |-> divided.arr]

----------------------------------------------------------------------------
(* State machine of the joint filter: one annotation, one call *)

EmptyTree == [d \in {Root} |-> 0]

InitPoints ==
    /\ fs = EmptyTree
    /\ pc = "ready"
    /\ index = IndexDb(EmptyTree).paths
    /\ errlog = << >>
    /\ trace = << >>
    /\ transform = "none"
    /\ hookCalls = << >>
    /\ data \in Annotations
    /\ result = NoResult

CallProcessPoints ==
    /\ result = NoResult
    /\ data # NoData
    /\ LET r == ProcessPoints(data)
       IN  result' = [op |-> "process_points", status |-> r.status,
                      p2d |-> r.p2d, p3d |-> r.p3d]
    /\ UNCHANGED <<fs, pc, index, errlog, trace, transform, hookCalls, data>>

NextPoints == CallProcessPoints

SpecPoints == InitPoints /\ [][NextPoints]_vars

----------------------------------------------------------------------------
(* Claims about the joint filter, checked under SpecPoints *)

StrippedNames(d) == { StripPrefix(d.joints[k].name) : k \in DOMAIN d.joints }

HasEverySkelJoint(d) == \A k \in DOMAIN Skel : Skel[k] \in StrippedNames(d)

\* the joints of the annotation whose stripped name is the k-th skeleton key
JointsNamed(d, k) == { j \in DOMAIN d.joints : StripPrefix(d.joints[j].name) = Skel[k] }

\* C5: for an annotation that holds every skeleton joint, _process_points
\* returns a 2D array of len(skel) rows of 2 values and a 3D array of
\* len(skel) rows of 3 values, and row k of each comes from the point of a
\* joint whose stripped name is the k-th skeleton key.
C5_RowsInSkeletonOrder ==
    (result.op = "process_points" /\ HasEverySkelJoint(data)) =>
        /\ result.status = "ok"
        /\ Len(result.p2d.rows) = Len(Skel)
        /\ Len(result.p3d.rows) = Len(Skel)
        /\ \A k \in DOMAIN Skel :
             /\ Len(result.p2d.rows[k]) = 2
             /\ Len(result.p3d.rows[k]) = 3
             /\ \E j \in JointsNamed(data, k) :
                  /\ \A c \in 1..2 : result.p2d.rows[k][c] = data.pts2d[c][j].v
                  /\ \A c \in 1..3 : result.p3d.rows[k][c] * CM_TO_M = data.pts3d[c][j].v

\* C7: every 3D output coordinate is the raw 3D coordinate divided by 100,
\* whatever the kinds of the annotation's numbers, and the 2D output
\* coordinates are the raw 2D values.
C7_Scaled3DUnscaled2D ==
    (result.op = "process_points" /\ HasEverySkelJoint(data)) =>
        /\ result.status = "ok"
        /\ \A k \in DOMAIN Skel :
             LET j == CHOOSE m \in JointsNamed(data, k) :
                        \A n \in JointsNamed(data, k) : n <= m
             IN  /\ \A c \in 1..3 : result.p3d.rows[k][c] * CM_TO_M = data.pts3d[c][j].v
                 /\ \A c \in 1..2 : result.p2d.rows[k][c] = data.pts2d[c][j].v

----------------------------------------------------------------------------
(* Mocap.__getitem__ and Mocap.__len__ *)

\* sio.imread(img_path): the decoded image file, 8 bits per channel; white is
\* the value of a fully lit channel
Imread(img_path) == [file |-> img_path, dtype |-> "uint8", white |-> 255]

\* lines 109-110: .astype(np.float32), then img /= 255.0
Normalised(img) == [file |-> img.file, dtype |-> "float32", white |-> img.white \div 255]

\* a configured transform: given a one-key mapping it returns a mapping with
\* the same key and an altered value
ApplyTransform(sample) == [k \in DOMAIN sample |-> [transformed |-> sample[k]]]

\* TransformSamples with a fault: the 2D joints are transformed before the 3D ones
TransformSamples2DFirst(img, p2d, p3d) ==
    << ("image" :> img), ("joints2D" :> p2d), ("joints3D" :> p3d) >>

\* lines 121-123: the mappings handed to self.transform, in call order
TransformSamples(img, p2d, p3d) ==
    << ("image" :> img), ("joints3D" :> p3d), ("joints2D" :> p2d) >>

\* the value a transform call returned under key, among the calls made
Returned(samples, key) ==
    LET k == CHOOSE n \in DOMAIN samples : key \in DOMAIN samples[n]
    IN  ApplyTransform(samples[k])[key]

NoSample == << >>

\* a failed fetch: the exception, the files opened before it, no tuple
Raised(i, exc, opened) ==
    [op |-> "getitem", arg |-> i, status |-> exc, opened |-> opened, sample |-> NoSample]

\* the annotations an annotation file of the dataset may hold: complete (in
\* another order than the skeleton's, with one extra joint) or lacking
\* joints, with float or int 2D numbers
SampleAnnotations ==
    { Annotation(js, k2, "float") :
        js \in { << <<Prefix, "Toe">>, <<"Hips">>, <<Prefix, "Head">>, <<Prefix, "Neck">> >>,
                 << <<Prefix, "Head">>, <<Prefix, "Toe">> >> },
        k2 \in {"float", "int"} }

InitData ==
    /\ fs \in Trees(SlotsData)
    /\ pc = "new"
    /\ index = EmptyDict
    /\ errlog = << >>
    /\ trace = << >>
    /\ transform \in {"none", "hook"}
    /\ hookCalls = << >>
    /\ data = NoData
    /\ result = NoResult

\* __getitem__(i), where the annotation file at json_path holds d
GetItem(i, d) ==
    /\ pc = "ready"
    /\ IF i + 1 \notin DOMAIN index.rgba
       THEN \* line 108: self.index['rgba'][index]
            /\ result' = Raised(i, "IndexError", << >>)
            /\ data' = NoData
            /\ hookCalls' = << >>
       ELSE LET img_path == Decode(index.rgba[i + 1])
                img      == Normalised(Imread(img_path))
            IN  IF i + 1 \notin DOMAIN index.json
                THEN \* line 113: self.index['json'][index]
                     /\ result' = Raised(i, "IndexError", <<img_path>>)
                     /\ data' = NoData
                     /\ hookCalls' = << >>
                ELSE LET json_path == Decode(index.json[i + 1])
                         pts       == ProcessPoints(d)
                         action    == d.action
                         samples   == TransformSamples(img, pts.p2d, pts.p3d)
                     IN  /\ data' = d
                         /\ IF pts.status # "ok"
                            THEN /\ result' = Raised(i, pts.status, <<img_path, json_path>>)
                                 /\ hookCalls' = << >>
                            ELSE IF transform # "none"
                            THEN /\ hookCalls' = samples
                                 /\ result' =
                                      [op |-> "getitem", arg |-> i, status |-> "ok",
                                       opened |-> <<img_path, json_path>>,
                                       sample |-> << Returned(samples, "image"),
                                                     Returned(samples, "joints2D"),
                                                     Returned(samples, "joints3D"),
                                                     action >>]
                            ELSE /\ hookCalls' = << >>
                                 /\ result' =
                                      [op |-> "getitem", arg |-> i, status |-> "ok",
                                       opened |-> <<img_path, json_path>>,
                                       sample |-> <<img, pts.p2d, pts.p3d, action>>]
    /\ UNCHANGED <<fs, pc, index, errlog, trace, transform>>

\* __len__()
CallLen ==
    /\ pc = "ready"
    /\ result' = [op |-> "len", value |-> DatasetLen(index)]
    /\ UNCHANGED <<fs, pc, index, errlog, trace, transform, hookCalls, data>>

\* a fetch of any index from 0 up to one past the last sample
Fetch ==
    /\ pc = "ready"
    /\ \E i \in 0..DatasetLen(index) : \E d \in SampleAnnotations : GetItem(i, d)

Next == Construct \/ Fetch \/ CallLen

Spec == InitData /\ [][Next]_vars

----------------------------------------------------------------------------
(* Claims about the dataset object, checked under Spec *)

RECURSIVE SumFiles(_, _, _)
SumFiles(tree, folders, cat) ==
    IF folders = {} THEN 0
    ELSE LET p == CHOOSE q \in folders : TRUE
         IN  tree[Append(p, cat)] + SumFiles(tree, folders \ {p}, cat)

\* C6: a fetch whose annotation lacks a skeleton joint ends in the lookup
\* error: it returns no tuple, calls no transform hook, and leaves the index
\* as it was.
C6_MissingJointAborts ==
    [][ ( /\ pc = "ready"
          /\ result'.op = "getitem"
          /\ data' # NoData
          /\ ~HasEverySkelJoint(data') )
        => ( /\ result'.status = "KeyError"
             /\ result'.sample = NoSample
             /\ hookCalls' = << >>
             /\ index' = index ) ]_vars

\* C6 witness: a fetch with a transform configured ended in the lookup error
\* after both files of the frame were opened
C6_Witness ==
    /\ result.op = "getitem"
    /\ result.status = "KeyError"
    /\ transform = "hook"
    /\ Len(result.opened) = 2
    /\ ~HasEverySkelJoint(data)

\* C8: a fetch that returns with a transform configured has called it exactly
\* three times, with {'image': img}, then {'joints3D': p3d}, then
\* {'joints2D': p2d}, each holding the untransformed data of that kind only,
\* and returns what each call gave back under its key; with no transform the
\* data are returned as computed and no hook is called.
C8_ThreeIndependentHookCalls ==
    (result.op = "getitem" /\ result.status = "ok") =>
        LET img == Normalised(Imread(Decode(index.rgba[result.arg + 1])))
            pts == ProcessPoints(data)
        IN  IF transform # "none"
            THEN /\ Len(hookCalls) = 3
                 /\ DOMAIN hookCalls[1] = {"image"}
                 /\ hookCalls[1]["image"] = img
                 /\ DOMAIN hookCalls[2] = {"joints3D"}
                 /\ hookCalls[2]["joints3D"] = pts.p3d
                 /\ DOMAIN hookCalls[3] = {"joints2D"}
                 /\ hookCalls[3]["joints2D"] = pts.p2d
                 /\ result.sample[1] = ApplyTransform(hookCalls[1])["image"]
                 /\ result.sample[3] = ApplyTransform(hookCalls[2])["joints3D"]
                 /\ result.sample[2] = ApplyTransform(hookCalls[3])["joints2D"]
            ELSE /\ hookCalls = << >>
                 /\ result.sample[1] = img
                 /\ result.sample[2] = pts.p2d
                 /\ result.sample[3] = pts.p3d

\* C8 witness: a returned sample of a dataset with a transform
C8_Witness ==
    /\ result.op = "getitem"
    /\ result.status = "ok"
    /\ transform = "hook"
    /\ Len(hookCalls) = 3
    /\ result.arg = 1

\* C9: __len__ returns the number of rgba paths of the index built at
\* construction, that is the number of files of the rgba directories of the
\* indexed folders, whatever the json counts and whatever was called before.
C9_LenIsImageCount ==
    /\ result.op = "len" => result.value = SumFiles(fs, IndexedFolders(fs), "rgba")
    /\ pc = "ready" => Len(index.rgba) = SumFiles(fs, IndexedFolders(fs), "rgba")

\* C9 witness: __len__ called after a failed fetch, on an index whose json
\* list is longer than its rgba list
C9_Witness ==
    /\ result.op = "len"
    /\ result.value = 2
    /\ Len(index.json) = 3
    /\ data # NoData
    /\ ~HasEverySkelJoint(data)

\* C10: every i with 0 <= i < len(dataset) finds an image path and an
\* annotation path (no out-of-range lookup), both of the same folder.
C10_EveryIndexAddressesAPair ==
    (result.op = "getitem" /\ result.arg < SumFiles(fs, IndexedFolders(fs), "rgba")) =>
        /\ result.status # "IndexError"
        /\ Len(result.opened) = 2
        /\ Parent(result.opened[1].dir) = Parent(result.opened[2].dir)

====
